---- MODULE Spec2Model ----
(***************************************************************************)
(* Model of the career-mentorship matching scripts                         *)
(*   career-mentorship-program/2020-spring/matching_code.py                *)
(*   career-mentorship-program/2021-spring/matching_code.py                *)
(*                                                                         *)
(* Several specifications share the module, among them:                    *)
(*   Spec        the 2020-spring main program: graph construction,         *)
(*               solving, saving, reporting, on lists of parsed            *)
(*               participants;                                             *)
(*   SpecExpand  Mentor.copy_self_for_bipartite_graph of both variants on  *)
(*               one mentor with an arbitrary integer capacity input;      *)
(*   SpecScore   MentorshipEdge of 2020-spring on one mentee and one       *)
(*               mentor slot with arbitrary tag sets.                      *)
(*                                                                         *)
(* Python's float arithmetic is modelled by exact rationals [n, d].        *)
(***************************************************************************)
EXTENDS Integers, Sequences, FiniteSets, TLC

VARIABLES
    pc,            \* position of the main program (2020-spring __main__)
    mentees,       \* list of parsed Mentee instances
    mentors,       \* list of parsed Mentor instances
    mentor_nodes,  \* MentorshipGraph.mentor_nodes
    graph,         \* MentorshipGraph.graph: node sets and edge attributes
    edges,         \* the list returned by find_optimal_matches (as a set)
    outfile,       \* the output file: "absent" or "written"
    raised,        \* the exception that ended the run, or NoError
    xpc,           \* SpecExpand: position
    variant,       \* SpecExpand: which program variant the mentor belongs to
    subject,       \* SpecExpand: the Mentor instance being expanded
    capacity,      \* SpecExpand: the capacity read by the expansion
    duplicates,    \* SpecExpand: list returned by copy_self_for_bipartite_graph
    spc,           \* SpecScore: position
    edge,          \* SpecScore: one MentorshipEdge object
    depth,         \* SpecScore2021: nested activations of the weight property
    calls,         \* SpecScore: calls of compute_weight_and_statistics so far
    reads,         \* SpecScore: reads of edge.weight / edge.statistics so far
    read_value,    \* SpecScore: the value the last read returned
    rows,          \* SpecSurvey: the rows of the survey response spreadsheet
    rerun_pc,      \* SpecRerun: position of a second run on the same input
    rerun_edges    \* SpecRerun: the list returned to the second run (as a set)

vars == <<pc, mentees, mentors, mentor_nodes, graph, edges, outfile, raised,
          xpc, variant, subject, capacity, duplicates, spc, edge, depth,
          calls, reads, read_value, rows, rerun_pc, rerun_edges>>

runVars    == <<pc, mentees, mentors, mentor_nodes, graph, edges, outfile, raised,
               rows, rerun_pc, rerun_edges>>
expandVars == <<xpc, variant, subject, capacity, duplicates>>
scoreVars  == <<spc, edge, depth, calls, reads, read_value>>
rerunVars  == <<rerun_pc, rerun_edges>>

\* Python's None; a record, so that it compares with weights and mappings
None == [none |-> TRUE]

\* no exception raised
NoError == "no error"

-----------------------------------------------------------------------------
(* Bounds *)

MaxMentees == 3      \* longest list of mentees of a run
MaxMentors == 2      \* longest list of mentors of a run
MaxCapInput == 5     \* largest capacity answer given to SpecExpand
NegCapInput == 2     \* capacity answers go down to -NegCapInput
MaxDepth == 3        \* nested reads of edge.weight the interpreter allows
MaxRows == 3         \* longest response file given to SpecSurvey
MaxReads == 4        \* longest sequence of property reads of one edge

-----------------------------------------------------------------------------
(* Exact rationals standing for Python floats *)

Abs(i) == IF i < 0 THEN 0 - i ELSE i

RECURSIVE GCD(_, _)
GCD(a, b) == IF b = 0 THEN a ELSE GCD(b, a % b)

Rat(num, den) ==
    LET g == GCD(Abs(num), den)
    IN  [n |-> num \div g, d |-> den \div g]

RatInt(k) == [n |-> k, d |-> 1]
RatAdd(x, y) == Rat(x.n * y.d + y.n * x.d, x.d * y.d)
RatSub(x, y) == Rat(x.n * y.d - y.n * x.d, x.d * y.d)
RatScale(k, x) == Rat(k * x.n, x.d)
RatNeg(x) == [n |-> 0 - x.n, d |-> x.d]
RatLeq(x, y) == x.n * y.d <= y.n * x.d
RatLess(x, y) == x.n * y.d < y.n * x.d

-----------------------------------------------------------------------------
(* Constants of the program *)

YEAR_VALUES ==
    [y \in {"Freshman", "Sophomore", "Junior", "Senior", "Masters", "Alum"} |->
        CASE y = "Freshman" -> 1
          [] y = "Sophomore" -> 2
          [] y = "Junior" -> 3
          [] y = "Senior" -> 4
          [] y = "Masters" -> 4
          [] y = "Alum" -> 5]

CAREER_INTERESTS_MULTIPLIER == 5
RECRUITMENT_TOPICS_MULTIPLIER == 3
MENTOR_NOT_OLDER_PENALTY == 10000000
MENTOR_CLOSE_IN_YEAR_BONUS == 1
MENTOR_TAKES_ON_ANOTHER_MENTEE_PENALTY == 100

-----------------------------------------------------------------------------
(* Participants: Mentee and Mentor instances as records of their fields.   *)
(* Equality of records is the dataclass __eq__ / __hash__ of the classes   *)
(* (every field compared), which is what the graph library keys nodes by.  *)

Years == DOMAIN YEAR_VALUES

Mentee(email, year, interested_fields, desired_topics) ==
    [email |-> email, year |-> year,
     interested_fields |-> interested_fields, desired_topics |-> desired_topics]

Mentor(email, year, experienced_fields, knowledgeable_topics, available_time) ==
    [email |-> email, year |-> year,
     experienced_fields |-> experienced_fields,
     knowledgeable_topics |-> knowledgeable_topics,
     available_time |-> available_time,
     copy_number |-> 0]

\* 2021-spring Mentor: the capacity is the survey answer num_mentees.
Mentor2021(email, year, num_mentees) ==
    [email |-> email, name |-> email, year |-> year, time_zone |-> 0,
     experienced_fields |-> {"ML"}, knowledgeable_topics |-> {"Resume"},
     hobbies |-> {"Chess"}, num_mentees |-> num_mentees, cs_experience |-> 3,
     available_time |-> 2, copy_number |-> 0]

-----------------------------------------------------------------------------
(* Capacity derivation and capacity expansion *)

num_mentees_possible(self) ==
    IF self.available_time <= 2
    THEN self.available_time
    ELSE 3

\* range(1, k) of Python: empty when k <= 1
Range1(k) == IF k >= 2 THEN 1 .. (k - 1) ELSE {}

\* the same list when the copies alias self instead of copying it
CopiesOf_Aliased(self, k) ==
    [j \in 1 .. (IF k >= 2 THEN k ELSE 1) |->
        [self EXCEPT !.copy_number = IF k >= 2 THEN k - 1 ELSE 0]]

\* the list [self] followed by one copy per duplicate_number
CopiesOf(self, k) ==
    <<self>> \o [duplicate_number \in Range1(k) |->
                    [self EXCEPT !.copy_number = duplicate_number]]

copy_self_for_bipartite_graph(self) ==
    CopiesOf(self, num_mentees_possible(self))

copy_self_for_bipartite_graph_2021(self) ==
    CopiesOf(self, self.num_mentees)

-----------------------------------------------------------------------------
(* Edge scoring (2020-spring) *)

ZeroDivisionError == "ZeroDivisionError"

\* YEAR_VALUES[year] for a year that is not a key
KeyError == "KeyError"

\* int / int of Python: a float; b = 0 raises and is handled by the caller
TrueDiv(a, b) == Rat(a, b)

\* 1. Career interests: the fraction of the mentee's fields the mentor has
InterestsOverlapFraction_Union(self) ==
    TrueDiv(Cardinality(self.mentee.interested_fields \cup self.mentor.experienced_fields),
            Cardinality(self.mentee.interested_fields))

InterestsOverlapFraction(self) ==
    TrueDiv(Cardinality(self.mentee.interested_fields \cap self.mentor.experienced_fields),
            Cardinality(self.mentee.interested_fields))

\* 2. Recruitment topics
TopicsOverlapFraction(self) ==
    TrueDiv(Cardinality(self.mentee.desired_topics \cap self.mentor.knowledgeable_topics),
            Cardinality(self.mentee.desired_topics))

\* 3. Year
YearDifference(self) == YEAR_VALUES[self.mentor.year] - YEAR_VALUES[self.mentee.year]

\* a penalty for a younger mentor only
NotOlderPenalty_OnlyYounger(year_difference) ==
    IF year_difference < 0 THEN MENTOR_NOT_OLDER_PENALTY ELSE 0

\* a penalty of the size of the slot-order penalty
NotOlderPenalty_Small(year_difference) ==
    IF year_difference <= 0 THEN MENTOR_TAKES_ON_ANOTHER_MENTEE_PENALTY ELSE 0

\* if year_difference <= 0: weight -= MENTOR_NOT_OLDER_PENALTY
NotOlderPenalty(year_difference) ==
    IF year_difference <= 0 THEN MENTOR_NOT_OLDER_PENALTY ELSE 0

\* if year_difference == 1 or year_difference == 2: weight += MENTOR_CLOSE_IN_YEAR_BONUS
CloseInYearBonus(year_difference) ==
    IF year_difference = 1 \/ year_difference = 2 THEN MENTOR_CLOSE_IN_YEAR_BONUS ELSE 0

\* no penalty for a further slot
AnotherMenteePenalty_Absent(self) == 0

\* the penalty when every further slot costs the same
AnotherMenteePenalty_Flat(self) ==
    IF self.mentor.copy_number > 0 THEN MENTOR_TAKES_ON_ANOTHER_MENTEE_PENALTY ELSE 0

\* weight -= MENTOR_TAKES_ON_ANOTHER_MENTEE_PENALTY * self.mentor.copy_number
AnotherMenteePenalty(self) ==
    MENTOR_TAKES_ON_ANOTHER_MENTEE_PENALTY * self.mentor.copy_number

\* The result of compute_weight_and_statistics: [raised, weight, statistics].
compute_weight_and_statistics(self) ==
    LET interests_overlap_fraction == InterestsOverlapFraction(self)
        topics_overlap_fraction == TopicsOverlapFraction(self)
        year_difference == YearDifference(self)
        w0 == RatInt(0)
        w1 == RatAdd(w0, RatScale(CAREER_INTERESTS_MULTIPLIER, interests_overlap_fraction))
        w2 == RatAdd(w1, RatScale(RECRUITMENT_TOPICS_MULTIPLIER, topics_overlap_fraction))
        w3 == RatSub(w2, RatInt(NotOlderPenalty(year_difference)))
        w4 == RatAdd(w3, RatInt(CloseInYearBonus(year_difference)))
        w5 == RatSub(w4, RatInt(AnotherMenteePenalty(self)))
    IN  IF Cardinality(self.mentee.interested_fields) = 0
           \/ Cardinality(self.mentee.desired_topics) = 0
        THEN [raised |-> ZeroDivisionError, weight |-> None, statistics |-> None]
        ELSE IF self.mentor.year \notin DOMAIN YEAR_VALUES
                \/ self.mentee.year \notin DOMAIN YEAR_VALUES
        THEN [raised |-> KeyError, weight |-> None, statistics |-> None]
        ELSE [raised |-> NoError,
              weight |-> w5,
              statistics |-> [interests_overlap_fraction |-> interests_overlap_fraction,
                              topics_overlap_fraction |-> topics_overlap_fraction,
                              year_difference |-> year_difference]]

\* MentorshipEdge.__init__
MentorshipEdge(mentee, mentor) ==
    [mentee |-> mentee, mentor |-> mentor, _weight |-> None, _statistics |-> None]

\* a weight property that computes on every read
ReadWeightOf_Uncached(self) ==
    LET r == compute_weight_and_statistics(self)
    IN  IF r.raised # NoError
        THEN [raised |-> r.raised, edge |-> self, calls |-> 1]
        ELSE [raised |-> NoError,
              edge |-> [self EXCEPT !._weight = r.weight, !._statistics = r.statistics],
              calls |-> 1]

\* A read of the weight property: the exception raised, the edge afterwards
\* and the number of calls of compute_weight_and_statistics made.
ReadWeightOf(self) ==
    IF self._weight = None
    THEN LET r == compute_weight_and_statistics(self)
         IN  IF r.raised # NoError
             THEN [raised |-> r.raised, edge |-> self, calls |-> 1]
             ELSE [raised |-> NoError,
                   edge |-> [self EXCEPT !._weight = r.weight, !._statistics = r.statistics],
                   calls |-> 1]
    ELSE [raised |-> NoError, edge |-> self, calls |-> 0]

\* A read of the statistics property.
ReadStatisticsOf(self) ==
    IF self._statistics = None
    THEN LET r == compute_weight_and_statistics(self)
         IN  IF r.raised # NoError
             THEN [raised |-> r.raised, edge |-> self, calls |-> 1]
             ELSE [raised |-> NoError,
                   edge |-> [self EXCEPT !._weight = r.weight, !._statistics = r.statistics],
                   calls |-> 1]
    ELSE [raised |-> NoError, edge |-> self, calls |-> 0]

-----------------------------------------------------------------------------
(* The mentorship graph (2020-spring) *)

SeqRange(s) == {s[i] : i \in DOMAIN s}

\* for mentor in mentors: mentor_nodes.extend(mentor.copy_self_for_bipartite_graph())
RECURSIVE ExpandAll(_)
ExpandAll(ms) ==
    IF ms = <<>>
    THEN <<>>
    ELSE copy_self_for_bipartite_graph(Head(ms)) \o ExpandAll(Tail(ms))

\* the attributes when the weight is not negated
EdgeAttributes_NotNegated(mentee, mentor) ==
    LET r == ReadWeightOf(MentorshipEdge(mentee, mentor))
    IN  [mentorship_edge |-> r.edge, weight |-> r.edge._weight]

\* graph.add_edge(mentee, mentor, mentorship_edge=edge, weight=(-edge.weight))
EdgeAttributes(mentee, mentor) ==
    LET r == ReadWeightOf(MentorshipEdge(mentee, mentor))
    IN  [mentorship_edge |-> r.edge, weight |-> RatNeg(r.edge._weight)]

\* MentorshipGraph.__init__: [raised, mentor_nodes, graph].  The nodes of the
\* library graph are keyed by value, so equal instances are one node.  The
\* first edge.weight that raises, in the order of the two loops, ends it.
MentorshipGraph(ms, mrs) ==
    LET nodes == ExpandAll(mrs)
        pairs == SeqRange(ms) \X SeqRange(nodes)
        RaisedAt(ij) == ReadWeightOf(MentorshipEdge(ms[ij[1]], nodes[ij[2]])).raised
        bad == {ij \in (DOMAIN ms) \X (DOMAIN nodes) : RaisedAt(ij) # NoError}
        first == CHOOSE ij \in bad :
                     \A kl \in bad : ij[1] < kl[1] \/ (ij[1] = kl[1] /\ ij[2] <= kl[2])
    IN  IF bad # {}
        THEN [raised |-> RaisedAt(first), mentor_nodes |-> nodes, graph |-> None]
        ELSE [raised |-> NoError,
              mentor_nodes |-> nodes,
              graph |-> [nodes |-> SeqRange(ms) \cup SeqRange(nodes),
                         edges |-> [p \in pairs |-> EdgeAttributes(p[1], p[2])]]]

\* The fields of the 2021-spring dataclasses, which the generated __hash__ reads
MenteeFields2021 ==
    {"email", "name", "year", "time_zone", "interested_fields", "desired_topics",
     "available_time", "hobbies", "does_prefer_gender", "gender", "cs_experience"}
MentorFields2021 ==
    {"email", "name", "year", "time_zone", "experienced_fields", "knowledgeable_topics",
     "num_mentees", "available_time", "hobbies", "does_prefer_gender", "gender",
     "cs_experience", "copy_number"}

\* hash(obj), taken when obj becomes a graph node, raises AttributeError when
\* the instance lacks one of the fields
HashRaises(obj, fields) == ~(fields \subseteq DOMAIN obj)

RECURSIVE ExpandAll2021(_)
ExpandAll2021(ms) ==
    IF ms = <<>>
    THEN <<>>
    ELSE copy_self_for_bipartite_graph_2021(Head(ms)) \o ExpandAll2021(Tail(ms))

\* What a read of edge.weight raises in 2021-spring: the first
\* compute_with_overlap divides by len(interested_fields), then evaluates
\* self.weight += ..., which reads the weight property again while _weight is
\* still None (SpecScore2021 takes these steps one at a time).
WeightRaises2021(mentee) ==
    IF Cardinality(mentee.interested_fields) = 0
    THEN ZeroDivisionError
    ELSE "RecursionError"

\* MentorshipGraph.__init__ (2021-spring): [raised, mentor_nodes, graph]
MentorshipGraph2021(ms, mrs) ==
    LET nodes == ExpandAll2021(mrs)
    IN  IF \E i \in DOMAIN ms : HashRaises(ms[i], MenteeFields2021)
        THEN [raised |-> "AttributeError", mentor_nodes |-> <<>>, graph |-> None]
        ELSE IF \E j \in DOMAIN nodes : HashRaises(nodes[j], MentorFields2021)
        THEN [raised |-> "AttributeError", mentor_nodes |-> nodes, graph |-> None]
        ELSE IF ms # <<>> /\ nodes # <<>>
        THEN [raised |-> WeightRaises2021(ms[1]), mentor_nodes |-> nodes, graph |-> None]
        ELSE [raised |-> NoError,
              mentor_nodes |-> nodes,
              graph |-> [nodes |-> SeqRange(ms) \cup SeqRange(nodes), edges |-> <<>>]]

-----------------------------------------------------------------------------
(* The solver: networkx.bipartite.minimum_weight_full_matching, which      *)
(* returns a matching of cardinality min(|U|, |V|) of minimum total weight *)
(* (scipy.optimize.linear_sum_assignment on the biadjacency matrix).       *)

Min(a, b) == IF a <= b THEN a ELSE b

\* all matchings (sets of <<u, v>>) of exactly k pairs between Us and Vs
RECURSIVE Matchings(_, _, _)
Matchings(Us, Vs, k) ==
    IF k = 0 THEN {{}}
    ELSE IF Cardinality(Us) < k \/ Cardinality(Vs) < k THEN {}
    ELSE LET u == CHOOSE x \in Us : TRUE
         IN  Matchings(Us \ {u}, Vs, k)
             \cup UNION {{m \cup {<<u, v>>} : m \in Matchings(Us \ {u}, Vs \ {v}, k - 1)} :
                         v \in Vs}

\* sum of the graph's weight attribute over the pairs of a matching
RECURSIVE MatchingCost(_, _)
MatchingCost(g, m) ==
    IF m = {}
    THEN RatInt(0)
    ELSE LET p == CHOOSE x \in m : TRUE
         IN  RatAdd(g.edges[p].weight, MatchingCost(g, m \ {p}))

\* a minimum-weight matching that need not be full (any cardinality)
minimum_weight_matching_NotFull(g, top_nodes) ==
    LET U == SeqRange(top_nodes)
        V == g.nodes \ U
        all == UNION {Matchings(U, V, k) : k \in 0 .. Min(Cardinality(U), Cardinality(V))}
        costs == {MatchingCost(g, m) : m \in all}
        best == CHOOSE c \in costs : \A d \in costs : RatLeq(c, d)
    IN  {m \in all : MatchingCost(g, m) = best}

\* the matchings the solver may return: every minimum-cost one (the choice
\* among ties depends on the iteration order of the node sets)
minimum_weight_full_matching(g, top_nodes) ==
    LET U == SeqRange(top_nodes)
        V == g.nodes \ U
        all == Matchings(U, V, Min(Cardinality(U), Cardinality(V)))
        costs == {MatchingCost(g, m) : m \in all}
        best == CHOOSE c \in costs : \A d \in costs : RatLeq(c, d)
    IN  {m \in all : MatchingCost(g, m) = best}

\* biadjacency_matrix raises NetworkXError("row_order is empty list")
SolverRaises(g, top_nodes) == SeqRange(top_nodes) = {}

\* With no node on the other side the graph has no edge; library versions
\* whose biadjacency_matrix unpacks zip(*edges) unguarded raise ValueError,
\* the others return the empty matching.
SolverMayRaise(g, top_nodes) == g.nodes \ SeqRange(top_nodes) = {}

\* what the call can do for a non-empty top_nodes: [raised, pairings]
SolverOutcomes(g, top_nodes) ==
    {[raised |-> NoError, pairings |-> m] : m \in minimum_weight_full_matching(g, top_nodes)}
    \cup (IF SolverMayRaise(g, top_nodes)
          THEN {[raised |-> "ValueError", pairings |-> {}]}
          ELSE {})

\* edges = [graph.edges[key, value]["mentorship_edge"] for key, value in pairings.items()
\*          if type(key) is Mentee]
EdgesOf(g, m) == {g.edges[p].mentorship_edge : p \in m}

-----------------------------------------------------------------------------
(* Survey rows (both variants).  A row is the list of cells csv.reader     *)
(* yields for one line.  A cell the program only stores or compares is an  *)
(* atom (a string); a cell the program looks into (split, int) is the      *)
(* sequence of its characters, "" being <<>>.                              *)

\* Indices into the survey response spreadsheet (2020-spring)
Columns2020 ==
    [EMAIL |-> 1, ROLE |-> 2, MENTOR_available_time |-> 5,
     MENTOR_EXPERIENCED_FIELDS |-> 6, MENTOR_KNOWLEDGEABLE_TOPICS |-> 7,
     MENTEE_DESIRED_TOPICS |-> 10, MENTEE_INTERESTED_FIELDS |-> 11, YEAR |-> 13,
     MENTOR_ROLES |-> 3, MENTEE_ROLES |-> 9]

\* Indices into the survey response spreadsheet (2021-spring)
Columns2021 ==
    [EMAIL |-> 1, ROLE |-> 2, NAME |-> 3, YEAR |-> 4, GMT_TIMEZONE |-> 5,
     MENTOR_PREFER_GENDER |-> 6, MENTOR_GENDER |-> 7, MENTOR_PREFER_RACE |-> 8,
     MENTOR_RACE |-> 9, MENTOR_NUMBER_OF_MENTEES |-> 10, MENTOR_TIME_AVAILABLE |-> 11,
     MENTOR_CS_EXPERIENCE |-> 12, MENTOR_EXPERIENCED_FIELDS |-> 13,
     MENTOR_COMFORTABLE_HELPING |-> 14, MENTOR_HOBBIES |-> 15,
     MENTEE_CS_EXPERIENCE |-> 17, MENTEE_PREFER_GENDER |-> 18, MENTEE_GENDER |-> 19,
     MENTEE_PREFER_RACE |-> 20, MENTEE_RACE |-> 21, MENTEE_TIME_AVAILABLE |-> 22,
     MENTEE_DESIRED_TOPICS |-> 23, MENTEE_INTERESTED_FIELDS |-> 24,
     MENTEE_HOBBIES |-> 25, MENTOR_OTHER_IDEAS |-> 16, MENTEE_OTHER_IDEAS |-> 26]

MENTOR_ROLE == "Mentor"
MENTEE_ROLE == "Mentee"

\* row[i] of Python (indices from 0)
At(row, i) == row[i + 1]

\* row[i] raises IndexError for some i of cols
IndexRaises(row, cols) == \E i \in cols : i >= Len(row)

\* the columns the 2021-spring from_survey_response functions index
StudentColumns2021 ==
    {Columns2021.EMAIL, Columns2021.YEAR, Columns2021.NAME, Columns2021.GMT_TIMEZONE}
MenteeColumns2021 ==
    {Columns2021.MENTEE_INTERESTED_FIELDS, Columns2021.MENTEE_DESIRED_TOPICS,
     Columns2021.MENTEE_HOBBIES, Columns2021.MENTEE_CS_EXPERIENCE,
     Columns2021.MENTEE_TIME_AVAILABLE, Columns2021.MENTEE_PREFER_GENDER,
     Columns2021.MENTEE_GENDER, Columns2021.MENTEE_PREFER_RACE, Columns2021.MENTEE_RACE}
MentorColumns2021 ==
    {Columns2021.MENTOR_EXPERIENCED_FIELDS, Columns2021.MENTOR_COMFORTABLE_HELPING,
     Columns2021.MENTOR_HOBBIES, Columns2021.MENTOR_NUMBER_OF_MENTEES,
     Columns2021.MENTOR_CS_EXPERIENCE, Columns2021.MENTOR_TIME_AVAILABLE,
     Columns2021.MENTOR_PREFER_GENDER, Columns2021.MENTOR_GENDER,
     Columns2021.MENTOR_PREFER_RACE, Columns2021.MENTOR_RACE}

\* str.split(sep) for a one-character separator: "" gives [""]
RECURSIVE split(_, _)
split(s, sep) ==
    IF \A i \in DOMAIN s : s[i] # sep
    THEN <<s>>
    ELSE LET k == CHOOSE i \in DOMAIN s : s[i] = sep /\ \A j \in 1 .. i - 1 : s[j] # sep
         IN  <<SubSeq(s, 1, k - 1)>> \o split(SubSeq(s, k + 1, Len(s)), sep)

\* frozenset(list)
frozenset(list) == {list[i] : i \in DOMAIN list}

Digits == <<"0", "1", "2", "3", "4", "5", "6", "7", "8", "9">>
IsDigit(c) == \E v \in DOMAIN Digits : Digits[v] = c
DigitValue(c) == (CHOOSE v \in DOMAIN Digits : Digits[v] = c) - 1

\* str.strip() restricted to blanks
RECURSIVE strip(_)
strip(s) ==
    IF s # <<>> /\ Head(s) = " " THEN strip(Tail(s))
    ELSE IF s # <<>> /\ s[Len(s)] = " " THEN strip(SubSeq(s, 1, Len(s) - 1))
    ELSE s

RECURSIVE DecimalValue(_)
DecimalValue(ds) ==
    IF ds = <<>>
    THEN 0
    ELSE 10 * DecimalValue(SubSeq(ds, 1, Len(ds) - 1)) + DigitValue(ds[Len(ds)])

\* int(str): blanks around, an optional sign, then one or more decimal digits;
\* anything else raises ValueError.  The result is [raised, value].
int(s) ==
    LET t == strip(s)
        signed == t # <<>> /\ Head(t) \in {"-", "+"}
        body == IF signed THEN Tail(t) ELSE t
    IN  IF body = <<>> \/ \E i \in DOMAIN body : ~IsDigit(body[i])
        THEN [raised |-> "ValueError", value |-> 0]
        ELSE [raised |-> NoError,
              value |-> IF signed /\ Head(t) = "-"
                        THEN 0 - DecimalValue(body)
                        ELSE DecimalValue(body)]

\* obj.name = value on an instance (the attribute is created when missing)
SetAttr(obj, name, value) ==
    [a \in DOMAIN obj \cup {name} |-> IF a = name THEN value ELSE obj[a]]

-----------------------------------------------------------------------------
(* Parsing of survey rows.  A from_survey_response result is [raised, value]. *)

\* Student.from_survey_response (2020-spring)
Student_from_survey_response(row) ==
    LET email == At(row, Columns2020.EMAIL)
        year == At(row, Columns2020.YEAR)
    IN  [email |-> email, year |-> year]

\* Mentee.from_survey_response (2020-spring)
Mentee_from_survey_response(row) ==
    IF IndexRaises(row, {Columns2020.EMAIL, Columns2020.YEAR,
                         Columns2020.MENTEE_INTERESTED_FIELDS,
                         Columns2020.MENTEE_DESIRED_TOPICS})
    THEN [raised |-> "IndexError", value |-> None]
    ELSE LET student == Student_from_survey_response(row)
         IN  [raised |-> NoError,
              value |-> Mentee(student.email, student.year,
                               frozenset(split(At(row, Columns2020.MENTEE_INTERESTED_FIELDS), ";")),
                               frozenset(split(At(row, Columns2020.MENTEE_DESIRED_TOPICS), ";")))]

\* Mentor.from_survey_response (2020-spring): an available time that is not
\* an integer becomes 1
Mentor_from_survey_response(row) ==
    IF IndexRaises(row, {Columns2020.EMAIL, Columns2020.YEAR,
                         Columns2020.MENTOR_EXPERIENCED_FIELDS,
                         Columns2020.MENTOR_KNOWLEDGEABLE_TOPICS,
                         Columns2020.MENTOR_available_time})
    THEN [raised |-> "IndexError", value |-> None]
    ELSE LET student == Student_from_survey_response(row)
             available_time == int(At(row, Columns2020.MENTOR_available_time))
         IN  [raised |-> NoError,
              value |-> Mentor(student.email, student.year,
                               frozenset(split(At(row, Columns2020.MENTOR_EXPERIENCED_FIELDS), ";")),
                               frozenset(split(At(row, Columns2020.MENTOR_KNOWLEDGEABLE_TOPICS), ";")),
                               IF available_time.raised = NoError
                               THEN available_time.value
                               ELSE 1)]

\* Student.from_survey_response (2021-spring).  The dataclass fields are
\* (email, name, year, time_zone) and the call is
\* Student(email, year, name, time_zone): the second positional argument, the
\* year answer, lands in name and the third, the name answer, in year.
Student2021_from_survey_response(row) ==
    LET email == At(row, Columns2021.EMAIL)
        year == At(row, Columns2021.YEAR)
        name == At(row, Columns2021.NAME)
        time_zone == int(At(row, Columns2021.GMT_TIMEZONE))
    IN  IF time_zone.raised # NoError
        THEN [raised |-> time_zone.raised, value |-> None]
        ELSE [raised |-> NoError,
              value |-> [email |-> email, name |-> year, year |-> name,
                         time_zone |-> time_zone.value]]

\* if value == "Yes": obj.attr = True; if value == "No preference":
\* obj.attr = False; any other answer leaves the attribute unset
WithPreference(obj, attr, value) ==
    IF value = "Yes" THEN SetAttr(obj, attr, TRUE)
    ELSE IF value = "No preference" THEN SetAttr(obj, attr, FALSE)
    ELSE obj

\* Mentee.from_survey_response (2021-spring).  The gender and race answers
\* are read into local variables and not stored.
Mentee2021_from_survey_response(row) ==
    IF IndexRaises(row, StudentColumns2021 \cup MenteeColumns2021)
    THEN [raised |-> "IndexError", value |-> None]
    ELSE
    LET student == Student2021_from_survey_response(row)
        cs_experience == int(At(row, Columns2021.MENTEE_CS_EXPERIENCE))
        available_time == int(At(row, Columns2021.MENTEE_TIME_AVAILABLE))
        mentee == [email |-> student.value.email, name |-> student.value.name,
                   year |-> student.value.year, time_zone |-> student.value.time_zone,
                   interested_fields |->
                       frozenset(split(At(row, Columns2021.MENTEE_INTERESTED_FIELDS), ";")),
                   desired_topics |->
                       frozenset(split(At(row, Columns2021.MENTEE_DESIRED_TOPICS), ";")),
                   hobbies |-> frozenset(split(At(row, Columns2021.MENTEE_HOBBIES), ";")),
                   cs_experience |-> cs_experience.value,
                   available_time |-> available_time.value]
    IN  IF student.raised # NoError THEN [raised |-> student.raised, value |-> None]
        ELSE IF cs_experience.raised # NoError
        THEN [raised |-> cs_experience.raised, value |-> None]
        ELSE IF available_time.raised # NoError
        THEN [raised |-> available_time.raised, value |-> None]
        ELSE [raised |-> NoError,
              value |-> WithPreference(
                            WithPreference(mentee, "does_prefer_gender",
                                           At(row, Columns2021.MENTEE_PREFER_GENDER)),
                            "does_prefer_race", At(row, Columns2021.MENTEE_PREFER_RACE))]

\* Mentor.from_survey_response (2021-spring); copy_number is the class default 0
Mentor2021_from_survey_response(row) ==
    IF IndexRaises(row, StudentColumns2021 \cup MentorColumns2021)
    THEN [raised |-> "IndexError", value |-> None]
    ELSE
    LET student == Student2021_from_survey_response(row)
        num_mentees == int(At(row, Columns2021.MENTOR_NUMBER_OF_MENTEES))
        cs_experience == int(At(row, Columns2021.MENTOR_CS_EXPERIENCE))
        available_time == int(At(row, Columns2021.MENTOR_TIME_AVAILABLE))
        mentor == [email |-> student.value.email, name |-> student.value.name,
                   year |-> student.value.year, time_zone |-> student.value.time_zone,
                   experienced_fields |->
                       frozenset(split(At(row, Columns2021.MENTOR_EXPERIENCED_FIELDS), ";")),
                   knowledgeable_topics |->
                       frozenset(split(At(row, Columns2021.MENTOR_COMFORTABLE_HELPING), ";")),
                   hobbies |-> frozenset(split(At(row, Columns2021.MENTOR_HOBBIES), ";")),
                   num_mentees |-> num_mentees.value,
                   cs_experience |-> cs_experience.value,
                   available_time |-> available_time.value,
                   copy_number |-> 0]
    IN  IF student.raised # NoError THEN [raised |-> student.raised, value |-> None]
        ELSE IF num_mentees.raised # NoError
        THEN [raised |-> num_mentees.raised, value |-> None]
        ELSE IF cs_experience.raised # NoError
        THEN [raised |-> cs_experience.raised, value |-> None]
        ELSE IF available_time.raised # NoError
        THEN [raised |-> available_time.raised, value |-> None]
        ELSE [raised |-> NoError,
              value |-> WithPreference(
                            WithPreference(mentor, "does_prefer_gender",
                                           At(row, Columns2021.MENTOR_PREFER_GENDER)),
                            "does_prefer_race", At(row, Columns2021.MENTOR_PREFER_RACE))]

\* the loop of create_mentors_and_mentees_from_survey_responses over the rows
\* still to read; an exception leaves the caller without lists
RECURSIVE ReadRows(_, _, _, _)
ReadRows(v, rs, ms, mrs) ==
    IF rs = <<>>
    THEN [raised |-> NoError, mentees |-> ms, mentors |-> mrs]
    ELSE LET row == Head(rs)
             is_2020 == v = "2020-spring"
         IN  IF IndexRaises(row, {Columns2020.ROLE})
             THEN [raised |-> "IndexError", mentees |-> <<>>, mentors |-> <<>>]
             ELSE IF At(row, Columns2020.ROLE) = MENTEE_ROLE
             THEN LET r == IF is_2020 THEN Mentee_from_survey_response(row)
                           ELSE Mentee2021_from_survey_response(row)
                  IN  IF r.raised # NoError
                      THEN [raised |-> r.raised, mentees |-> <<>>, mentors |-> <<>>]
                      ELSE ReadRows(v, Tail(rs), Append(ms, r.value), mrs)
             ELSE IF At(row, Columns2020.ROLE) = MENTOR_ROLE
             THEN LET r == IF is_2020 THEN Mentor_from_survey_response(row)
                           ELSE Mentor2021_from_survey_response(row)
                  IN  IF r.raised # NoError
                      THEN [raised |-> r.raised, mentees |-> <<>>, mentors |-> <<>>]
                      ELSE ReadRows(v, Tail(rs), ms, Append(mrs, r.value))
             ELSE ReadRows(v, Tail(rs), ms, mrs)

\* create_mentors_and_mentees_from_survey_responses of variant v on the rows
\* of the file: [raised, mentees, mentors]
create_mentors_and_mentees_from_survey_responses(v, rs) == ReadRows(v, rs, <<>>, <<>>)

-----------------------------------------------------------------------------
(* Inputs *)

\* Mentee instances a survey can produce (tag sets of parsed rows are never empty)
MenteePool ==
    {Mentee("ann", "Freshman", {"ML", "Security"}, {"Resume"}),
     Mentee("bob", "Sophomore", {"Systems"}, {"Resume", "Interviews"}),
     Mentee("cat", "Junior", {"ML"}, {"Interviews"}),
     Mentee("dan", "Freshman", {"Security"}, {"Resume"})}

\* Mentor instances a survey can produce: available_time 0, 2 and above the clamp
MentorPool ==
    {Mentor("mia", "Senior", {"ML"}, {"Resume"}, 5),
     Mentor("ned", "Sophomore", {"Systems"}, {"Interviews"}, 2),
     Mentor("ola", "Junior", {"ML", "Security"}, {"Resume"}, 0)}

SeqsUpTo(S, lo, hi) == UNION {[1 .. n -> S] : n \in lo .. hi}

Fields == {"ML", "Security"}
Topics == {"Resume", "Interviews"}
CapInputs == (0 - NegCapInput) .. MaxCapInput
Variants == {"2020-spring", "2021-spring"}

\* the row with the cells of the function cells (column index -> cell)
\* written over those of blank
Fill(blank, cells) ==
    [i \in DOMAIN blank |-> IF i - 1 \in DOMAIN cells THEN cells[i - 1] ELSE blank[i]]

\* the columns whose cells the program splits or converts
TextColumns2020 ==
    {Columns2020.MENTOR_available_time, Columns2020.MENTOR_EXPERIENCED_FIELDS,
     Columns2020.MENTOR_KNOWLEDGEABLE_TOPICS, Columns2020.MENTEE_DESIRED_TOPICS,
     Columns2020.MENTEE_INTERESTED_FIELDS}
TextColumns2021 ==
    {Columns2021.GMT_TIMEZONE, Columns2021.MENTOR_NUMBER_OF_MENTEES,
     Columns2021.MENTOR_TIME_AVAILABLE, Columns2021.MENTOR_CS_EXPERIENCE,
     Columns2021.MENTOR_EXPERIENCED_FIELDS, Columns2021.MENTOR_COMFORTABLE_HELPING,
     Columns2021.MENTOR_HOBBIES, Columns2021.MENTEE_CS_EXPERIENCE,
     Columns2021.MENTEE_TIME_AVAILABLE, Columns2021.MENTEE_DESIRED_TOPICS,
     Columns2021.MENTEE_INTERESTED_FIELDS, Columns2021.MENTEE_HOBBIES}

\* a row of unanswered questions
BlankRow2020 ==
    [i \in 1 .. Columns2020.YEAR + 1 |-> IF i - 1 \in TextColumns2020 THEN <<>> ELSE ""]
BlankRow2021 ==
    [i \in 1 .. Columns2021.MENTEE_OTHER_IDEAS + 1 |->
        IF i - 1 \in TextColumns2021 THEN <<>> ELSE ""]

MenteeRow2020(email, year, interested_fields, desired_topics) ==
    Fill(BlankRow2020,
         (Columns2020.EMAIL :> email) @@ (Columns2020.ROLE :> MENTEE_ROLE)
         @@ (Columns2020.YEAR :> year)
         @@ (Columns2020.MENTEE_INTERESTED_FIELDS :> interested_fields)
         @@ (Columns2020.MENTEE_DESIRED_TOPICS :> desired_topics))

MentorRow2020(email, year, experienced_fields, knowledgeable_topics, available_time) ==
    Fill(BlankRow2020,
         (Columns2020.EMAIL :> email) @@ (Columns2020.ROLE :> MENTOR_ROLE)
         @@ (Columns2020.YEAR :> year)
         @@ (Columns2020.MENTOR_EXPERIENCED_FIELDS :> experienced_fields)
         @@ (Columns2020.MENTOR_KNOWLEDGEABLE_TOPICS :> knowledgeable_topics)
         @@ (Columns2020.MENTOR_available_time :> available_time))

\* Rows of a 2020-spring response file: the header line, well-formed answers,
\* an unanswered tag question, a misspelt year, an available time that is
\* not a number, and an empty line.
RowPool2020 ==
    {Fill(BlankRow2020, (Columns2020.EMAIL :> "Email Address")
                        @@ (Columns2020.ROLE :> "Mentor or mentee?")
                        @@ (Columns2020.YEAR :> "Year")),
     MenteeRow2020("ann", "Freshman", <<"a", ";", "b">>, <<"a">>),
     MenteeRow2020("bob", "Sophomore", <<>>, <<"b">>),
     MenteeRow2020("zed", "Sophmore", <<"a">>, <<"a">>),
     MentorRow2020("mia", "Senior", <<"a">>, <<"a">>, <<"2">>),
     MentorRow2020("ned", "Junior", <<"a", ";", "b">>, <<>>, <<"2", " ", "h">>),
     <<>>}

MenteeRow2021(email, name, year, time_zone, interested_fields, hobbies, cs_experience, prefer_gender, gender) ==
    Fill(BlankRow2021,
         (Columns2021.EMAIL :> email) @@ (Columns2021.ROLE :> MENTEE_ROLE)
         @@ (Columns2021.NAME :> name) @@ (Columns2021.YEAR :> year)
         @@ (Columns2021.GMT_TIMEZONE :> time_zone)
         @@ (Columns2021.MENTEE_INTERESTED_FIELDS :> interested_fields)
         @@ (Columns2021.MENTEE_DESIRED_TOPICS :> <<"a">>)
         @@ (Columns2021.MENTEE_HOBBIES :> hobbies)
         @@ (Columns2021.MENTEE_CS_EXPERIENCE :> cs_experience)
         @@ (Columns2021.MENTEE_TIME_AVAILABLE :> <<"2">>)
         @@ (Columns2021.MENTEE_PREFER_GENDER :> prefer_gender)
         @@ (Columns2021.MENTEE_GENDER :> gender)
         @@ (Columns2021.MENTEE_PREFER_RACE :> "No preference"))

MentorRow2021(email, name, year, time_zone, experienced_fields, num_mentees, prefer_gender, gender) ==
    Fill(BlankRow2021,
         (Columns2021.EMAIL :> email) @@ (Columns2021.ROLE :> MENTOR_ROLE)
         @@ (Columns2021.NAME :> name) @@ (Columns2021.YEAR :> year)
         @@ (Columns2021.GMT_TIMEZONE :> time_zone)
         @@ (Columns2021.MENTOR_EXPERIENCED_FIELDS :> experienced_fields)
         @@ (Columns2021.MENTOR_COMFORTABLE_HELPING :> <<"a">>)
         @@ (Columns2021.MENTOR_HOBBIES :> <<"a">>)
         @@ (Columns2021.MENTOR_NUMBER_OF_MENTEES :> num_mentees)
         @@ (Columns2021.MENTOR_CS_EXPERIENCE :> <<"3">>)
         @@ (Columns2021.MENTOR_TIME_AVAILABLE :> <<"2">>)
         @@ (Columns2021.MENTOR_PREFER_GENDER :> prefer_gender)
         @@ (Columns2021.MENTOR_GENDER :> gender)
         @@ (Columns2021.MENTOR_PREFER_RACE :> "No preference"))

\* Rows of a 2021-spring response file: the header line, well-formed answers,
\* unanswered optional questions, numeric answers that are not numbers, and
\* an empty line.
RowPool2021 ==
    {Fill(BlankRow2021, (Columns2021.EMAIL :> "Email Address")
                        @@ (Columns2021.ROLE :> "Mentor or mentee?")
                        @@ (Columns2021.YEAR :> "Year")),
     MenteeRow2021("ann", "Ann", "Freshman", <<"-", "5">>, <<"a", ";", "b">>, <<"a">>,
                   <<"1">>, "Yes", "Woman"),
     MenteeRow2021("bob", "Bob", "Sophomore", <<"G", "M", "T">>, <<"a">>, <<"a">>,
                   <<"1">>, "No preference", ""),
     MenteeRow2021("cat", "Cat", "Junior", <<"0">>, <<"b">>, <<>>, <<>>, "", ""),
     MentorRow2021("mia", "Mia", "Senior", <<"-", "5">>, <<"a">>, <<"2">>, "Yes", "Woman"),
     MentorRow2021("ned", "Ned", "Junior", <<"0">>, <<"a", ";", "b">>, <<"1", "-", "2">>,
                   "", ""),
     <<>>}

RowPool(v) == IF v = "2020-spring" THEN RowPool2020 ELSE RowPool2021

\* values of the variables a specification does not use
IdleRun ==
    /\ pc = "idle" /\ mentees = <<>> /\ mentors = <<>> /\ mentor_nodes = <<>>
    /\ graph = None /\ edges = {} /\ outfile = "absent" /\ raised = NoError
    /\ rows = <<>> /\ rerun_pc = "idle" /\ rerun_edges = {}
IdleExpand ==
    /\ xpc = "idle" /\ variant = "2020-spring" /\ subject = None
    /\ capacity = 0 /\ duplicates = <<>>
IdleScore ==
    /\ spc = "idle" /\ edge = None /\ depth = 0
    /\ calls = 0 /\ reads = 0 /\ read_value = None

\* Spec: the lists returned by create_mentors_and_mentees_from_survey_responses
Init ==
    /\ pc = "parsed"
    /\ mentees \in SeqsUpTo(MenteePool, 0, MaxMentees)
    /\ mentors \in SeqsUpTo(MentorPool, 1, MaxMentors)
    /\ mentor_nodes = <<>>
    /\ graph = None
    /\ edges = {}
    /\ outfile = "absent"
    /\ raised = NoError
    /\ rows = <<>>
    /\ rerun_pc = "idle"
    /\ rerun_edges = {}
    /\ IdleExpand
    /\ IdleScore

\* SpecExpand: one mentor of either variant, any integer capacity answer
InitExpand ==
    /\ xpc = "created"
    /\ variant \in Variants
    /\ \E e \in {"mia", "ned"}, y \in Years, c \in CapInputs :
          subject = IF variant = "2020-spring"
                    THEN Mentor(e, y, {"ML"}, {"Resume"}, c)
                    ELSE Mentor2021(e, y, c)
    /\ capacity = 0
    /\ duplicates = <<>>
    /\ IdleRun
    /\ IdleScore

\* SpecSurvey: the program of either variant started on a response file
InitSurvey ==
    /\ pc = "start"
    /\ variant \in Variants
    /\ rows \in SeqsUpTo(RowPool(variant), 0, MaxRows)
    /\ mentees = <<>>
    /\ mentors = <<>>
    /\ mentor_nodes = <<>>
    /\ graph = None
    /\ edges = {}
    /\ outfile = "absent"
    /\ raised = NoError
    /\ rerun_pc = "idle"
    /\ rerun_edges = {}
    /\ xpc = "idle" /\ subject = None /\ capacity = 0 /\ duplicates = <<>>
    /\ IdleScore

\* the freshly constructed edges between any mentee and any of the three
\* slots (copy_number 0 .. 2) of any mentor with available_time 3
EdgeInputs ==
    {MentorshipEdge(Mentee("ann", my, mf, mt),
                    [Mentor("mia", y, f, t, 3) EXCEPT !.copy_number = c]) :
        my \in Years, mf \in SUBSET Fields, mt \in SUBSET Topics,
        y \in Years, f \in SUBSET Fields, t \in SUBSET Topics, c \in 0 .. 2}

\* SpecScore: one freshly constructed edge between any mentee and any slot
InitScore ==
    /\ spc = "created"
    /\ edge \in EdgeInputs
    /\ depth = 0
    /\ calls = 0
    /\ reads = 0
    /\ read_value = None
    /\ IdleRun
    /\ IdleExpand

\* answers to the two gender questions of the 2021-spring survey
PreferenceAnswers == {"Yes", "No preference", ""}
GenderAnswers == {"Woman", "Man"}

\* SpecScore2021: one freshly constructed 2021-spring edge between a mentee
\* and a mentor slot read from two survey rows (rows[1], rows[2]), or between
\* such a mentor slot and a mentee whose interested_fields was then emptied
InitScore2021 ==
    /\ spc = "created"
    /\ depth = 0
    /\ calls = 0 /\ reads = 0 /\ read_value = None
    /\ raised = NoError
    /\ variant = "2021-spring"
    /\ \E mp \in PreferenceAnswers, mg \in GenderAnswers,
          p \in PreferenceAnswers, g \in GenderAnswers,
          f \in {<<"a">>, <<"b">>}, n \in {<<"1">>, <<"2">>} :
          rows = <<MenteeRow2021("ann", "Ann", "Freshman", <<"0">>, <<"a", ";", "b">>,
                                 <<"a">>, <<"1">>, mp, mg),
                   MentorRow2021("mia", "Mia", "Senior", <<"0">>, f, n, p, g)>>
    /\ \E emptied \in BOOLEAN :
          LET mentee == Mentee2021_from_survey_response(rows[1]).value
              mentor == Mentor2021_from_survey_response(rows[2]).value
          IN  \E slot \in SeqRange(copy_self_for_bipartite_graph_2021(mentor)) :
                  edge = MentorshipEdge(IF emptied
                                        THEN [mentee EXCEPT !.interested_fields = {}]
                                        ELSE mentee,
                                        slot)
    /\ pc = "idle" /\ mentees = <<>> /\ mentors = <<>> /\ mentor_nodes = <<>>
    /\ graph = None /\ edges = {} /\ outfile = "absent"
    /\ rerun_pc = "idle" /\ rerun_edges = {}
    /\ xpc = "idle" /\ subject = None /\ capacity = 0 /\ duplicates = <<>>

-----------------------------------------------------------------------------
(* Actions of the main program (2020-spring __main__) *)

\* mentees, mentors = create_mentors_and_mentees_from_survey_responses(filename)
CreateMentorsAndMenteesFromSurveyResponses ==
    /\ pc = "start"
    /\ LET r == create_mentors_and_mentees_from_survey_responses(variant, rows)
       IN  /\ mentees' = r.mentees
           /\ mentors' = r.mentors
           /\ raised' = r.raised
           /\ pc' = IF r.raised = NoError THEN "parsed" ELSE "failed"
    /\ UNCHANGED <<mentor_nodes, graph, edges, outfile, expandVars, scoreVars,
                   rows, rerunVars>>

\* graph = MentorshipGraph(mentees, mentors) of 2021-spring
BuildGraph2021 ==
    /\ pc = "parsed"
    /\ variant = "2021-spring"
    /\ LET r == MentorshipGraph2021(mentees, mentors)
       IN  /\ mentor_nodes' = r.mentor_nodes
           /\ graph' = r.graph
           /\ raised' = r.raised
           /\ pc' = IF r.raised = NoError THEN "built" ELSE "failed"
    /\ UNCHANGED <<mentees, mentors, edges, outfile, expandVars, scoreVars,
                   rows, rerunVars>>

\* graph = MentorshipGraph(mentees, mentors)
BuildGraph ==
    /\ pc = "parsed"
    /\ variant = "2020-spring"
    /\ LET r == MentorshipGraph(mentees, mentors)
       IN  /\ mentor_nodes' = r.mentor_nodes
           /\ graph' = r.graph
           /\ raised' = r.raised
           /\ pc' = IF r.raised = NoError THEN "built" ELSE "failed"
    /\ UNCHANGED <<mentees, mentors, edges, outfile, expandVars, scoreVars,
                   rows, rerunVars>>

\* edges = graph.find_optimal_matches()
FindOptimalMatches ==
    /\ pc = "built"
    /\ IF SolverRaises(graph, mentees)
       THEN /\ pc' = "failed"
            /\ raised' = "NetworkXError"
            /\ edges' = edges
       ELSE \E outcome \in SolverOutcomes(graph, mentees) :
                /\ edges' = IF outcome.raised = NoError THEN EdgesOf(graph, outcome.pairings) ELSE edges
                /\ pc' = IF outcome.raised = NoError THEN "solved" ELSE "failed"
                /\ raised' = IF outcome.raised = NoError THEN raised ELSE outcome.raised
    /\ UNCHANGED <<mentees, mentors, mentor_nodes, graph, outfile, expandVars, scoreVars,
                   rows, rerunVars>>

\* the save statement also runs when an earlier statement raised
ReadyToSave_AfterFailure == pc \in {"solved", "failed"}

\* __main__ reaches the save statement when the three statements before it
\* have returned
ReadyToSave == pc = "solved"

\* save_optimal_matches_to_csv(edges, matches_filename)
SaveOptimalMatchesToCsv ==
    /\ ReadyToSave
    /\ outfile' = "written"
    /\ pc' = "saved"
    /\ UNCHANGED <<mentees, mentors, mentor_nodes, graph, edges, raised,
                   expandVars, scoreVars, rows, rerunVars>>

\* print_overall_matching_statistics(edges) with DEBUG = True: edges[0] needs
\* one edge and statistics.stdev needs two
PrintOverallMatchingStatistics ==
    /\ pc = "saved"
    /\ IF Cardinality(edges) = 0
       THEN pc' = "failed" /\ raised' = "IndexError"
       ELSE IF Cardinality(edges) < 2
       THEN pc' = "failed" /\ raised' = "StatisticsError"
       ELSE pc' = "done" /\ raised' = raised
    /\ UNCHANGED <<mentees, mentors, mentor_nodes, graph, edges, outfile,
                   expandVars, scoreVars, rows, rerunVars>>

Next ==
    \/ BuildGraph
    \/ FindOptimalMatches
    \/ SaveOptimalMatchesToCsv
    \/ PrintOverallMatchingStatistics

Spec == Init /\ [][Next]_vars

\* A second run of the program on the same lists, up to the return of
\* find_optimal_matches: the graph is built again from the same participants
\* and the library is free in the same choices.
FindOptimalMatchesAgain ==
    /\ pc = "solved"
    /\ rerun_pc = "idle"
    /\ LET again == MentorshipGraph(mentees, mentors)
       IN  \E outcome \in SolverOutcomes(again.graph, mentees) :
               /\ rerun_edges' = IF outcome.raised = NoError
                                 THEN EdgesOf(again.graph, outcome.pairings)
                                 ELSE rerun_edges
               /\ rerun_pc' = IF outcome.raised = NoError THEN "solved" ELSE "failed"
    /\ UNCHANGED <<pc, mentees, mentors, mentor_nodes, graph, edges, outfile, raised,
                   rows, expandVars, scoreVars>>

NextRerun ==
    \/ BuildGraph
    \/ FindOptimalMatches
    \/ FindOptimalMatchesAgain

SpecRerun == Init /\ [][NextRerun]_vars

\* the whole program of either variant, from the response file
NextSurvey ==
    \/ CreateMentorsAndMenteesFromSurveyResponses
    \/ BuildGraph
    \/ BuildGraph2021
    \/ FindOptimalMatches
    \/ SaveOptimalMatchesToCsv
    \/ PrintOverallMatchingStatistics

SpecSurvey == InitSurvey /\ [][NextSurvey]_vars

-----------------------------------------------------------------------------
(* SpecExpand: capacity expansion of one mentor *)

Expand ==
    /\ xpc = "created"
    /\ capacity' = IF variant = "2020-spring"
                   THEN num_mentees_possible(subject)
                   ELSE subject.num_mentees
    /\ duplicates' = IF variant = "2020-spring"
                     THEN copy_self_for_bipartite_graph(subject)
                     ELSE copy_self_for_bipartite_graph_2021(subject)
    /\ xpc' = "expanded"
    /\ UNCHANGED <<variant, subject, runVars, scoreVars>>

NextExpand == Expand

SpecExpand == InitExpand /\ [][NextExpand]_vars

-----------------------------------------------------------------------------
(* SpecScore: reads of one edge's properties *)

\* a read of edge.weight
ReadWeight ==
    /\ spc \in {"created", "computed"}
    /\ reads < MaxReads
    /\ LET r == ReadWeightOf(edge)
       IN  /\ edge' = r.edge
           /\ calls' = calls + r.calls
           /\ read_value' = r.edge._weight         \* return self._weight
           /\ spc' = IF r.raised = NoError THEN "computed" ELSE "raised"
    /\ reads' = reads + 1
    /\ UNCHANGED <<depth, runVars, expandVars>>

\* a read of edge.statistics
ReadStatistics ==
    /\ spc \in {"created", "computed"}
    /\ reads < MaxReads
    /\ LET r == ReadStatisticsOf(edge)
       IN  /\ edge' = r.edge
           /\ calls' = calls + r.calls
           /\ read_value' = r.edge._statistics     \* return self._statistics
           /\ spc' = IF r.raised = NoError THEN "computed" ELSE "raised"
    /\ reads' = reads + 1
    /\ UNCHANGED <<depth, runVars, expandVars>>

NextScore ==
    \/ ReadWeight
    \/ ReadStatistics

SpecScore == InitScore /\ [][NextScore]_vars

\* SpecMemo: every MentorshipEdge object of the program, either one edge
\* under an arbitrary sequence of reads of its two properties, or the edges
\* a run constructs in MentorshipGraph.__init__ and hands to saving and
\* reporting
InitMemo == InitScore \/ Init

NextMemo ==
    \/ ReadWeight
    \/ ReadStatistics
    \/ BuildGraph
    \/ FindOptimalMatches
    \/ SaveOptimalMatchesToCsv
    \/ PrintOverallMatchingStatistics

SpecMemo == InitMemo /\ [][NextMemo]_vars

-----------------------------------------------------------------------------
(* SpecScore2021: a read of the weight of one 2021-spring edge, one step   *)
(* per property activation.  The locals weight and statistics of an        *)
(* activation are dropped when it raises and are not part of the state.    *)

\* The getter of MentorshipEdge.weight is entered, by the reader when
\* spc = "created" and by the statement self.weight += ... when
\* spc = "adding".  With _weight still None it calls
\* compute_weight_and_statistics, unless the interpreter's recursion limit
\* is reached, which raises RecursionError through every activation.
GetWeight2021 ==
    /\ spc \in {"created", "adding"}
    /\ IF edge._weight # None
       THEN spc' = "computed" /\ depth' = depth /\ raised' = raised
       ELSE IF depth >= MaxDepth
       THEN spc' = "raised" /\ depth' = depth /\ raised' = "RecursionError"
       ELSE spc' = "computing" /\ depth' = depth + 1 /\ raised' = raised
    /\ UNCHANGED <<pc, mentees, mentors, mentor_nodes, graph, edges, outfile,
                   rows, rerunVars, expandVars, edge, calls, reads, read_value>>

\* compute_weight_and_statistics up to the first compute_with_overlap:
\* overlap_fraction = num_overlap / num_mentee, then self.weight += ...,
\* which starts by reading self.weight
ComputeWithOverlap2021 ==
    /\ spc = "computing"
    /\ IF Cardinality(edge.mentee.interested_fields) = 0
       THEN spc' = "raised" /\ raised' = ZeroDivisionError
       ELSE spc' = "adding" /\ raised' = raised
    /\ UNCHANGED <<pc, mentees, mentors, mentor_nodes, graph, edges, outfile,
                   rows, rerunVars, expandVars, edge, depth, calls, reads, read_value>>

NextScore2021 ==
    \/ GetWeight2021
    \/ ComputeWithOverlap2021

SpecScore2021 == InitScore2021 /\ [][NextScore2021]_vars

-----------------------------------------------------------------------------
(* Properties of the 2020-spring run (Spec) *)

\* find_optimal_matches has been called (it returned or raised)
SolveAttempted == pc \in {"solved", "saved", "done", "failed"}

\* find_optimal_matches has returned its list of edges
Returned == pc \in {"solved", "saved", "done"} \/ (pc = "failed" /\ outfile = "written")

MenteeSet == SeqRange(mentees)     \* the distinct mentees
Slots == SeqRange(mentor_nodes)    \* the distinct slots (mentor, copy_number)

\* the mentor a slot belongs to
OwnerOf(slot) == [slot EXCEPT !.copy_number = 0]

EdgesOfMentee(m) == {e \in edges : e.mentee = m}
EdgesOfMentor(m) == {e \in edges : OwnerOf(e.mentor) = m}
SlotUsed(slot) == \E e \in edges : e.mentor = slot

NoSlotTwice == \A e1, e2 \in edges : e1.mentor = e2.mentor => e1 = e2

\* weight of a pair, from the scorer
PairWeight(p) == compute_weight_and_statistics(MentorshipEdge(p[1], p[2])).weight

\* sum of MentorshipEdge.weight over the pairs of an assignment
RECURSIVE AssignmentWeight(_)
AssignmentWeight(a) ==
    IF a = {}
    THEN RatInt(0)
    ELSE LET p == CHOOSE x \in a : TRUE
         IN  RatAdd(graph.edges[p].mentorship_edge._weight, AssignmentWeight(a \ {p}))

\* the assignments that give every (distinct) mentee a distinct slot
CompleteAssignments == Matchings(MenteeSet, Slots, Cardinality(MenteeSet))

ReturnedAssignment == {<<e.mentee, e.mentor>> : e \in edges}

MentorOlder(mentee, slot) == YEAR_VALUES[slot.year] > YEAR_VALUES[mentee.year]

\* some assignment gives every mentee of Us a distinct slot of Vs whose
\* mentor is older than the mentee
RECURSIVE ExistsOlderAssignment(_, _)
ExistsOlderAssignment(Us, Vs) ==
    \/ Us = {}
    \/ LET u == CHOOSE x \in Us : TRUE
       IN  \E v \in Vs : MentorOlder(u, v) /\ ExistsOlderAssignment(Us \ {u}, Vs \ {v})

C2_CapacityRespect ==
    Returned =>
        \A i \in DOMAIN mentors :
            num_mentees_possible(mentors[i]) >= 0
                => Cardinality(EdgesOfMentor(mentors[i])) <= num_mentees_possible(mentors[i])

\* C3: when find_optimal_matches returns, the weight attribute of every graph
\* edge is the negated weight of its MentorshipEdge, as the scorer computes
\* it, and the returned assignment weighs at least as much as every
\* assignment of every mentee to a distinct slot.
C3_Optimality ==
    pc = "solved" =>
        /\ \A p \in DOMAIN graph.edges :
               /\ graph.edges[p].mentorship_edge._weight = PairWeight(p)
               /\ RatAdd(graph.edges[p].weight, PairWeight(p)) = RatInt(0)
        /\ LET returned == AssignmentWeight(ReturnedAssignment)
           IN  \A a \in CompleteAssignments : RatLeq(AssignmentWeight(a), returned)

\* three mentees are matched and some other complete assignment weighs strictly less
C3_Witness ==
    /\ pc = "solved"
    /\ Cardinality(edges) = 3
    /\ \E a \in CompleteAssignments :
          RatLess(AssignmentWeight(a), AssignmentWeight(ReturnedAssignment))

\* C4 as claimed: with fewer slots in the graph than mentees the solver fails
\* and the run writes no output file.
C4_InfeasibleFails ==
    (SolveAttempted /\ Cardinality(Slots) < Cardinality(MenteeSet))
        => (pc = "failed" /\ edges = {} /\ outfile = "absent")

\* C5: when some assignment gives every mentee a distinct slot of an older
\* mentor, every returned edge has year_difference >= 1.
C5_Seniority ==
    (Returned /\ ExistsOlderAssignment(MenteeSet, Slots))
        => \A e \in edges : e._statistics.year_difference >= 1

\* two mentees are matched to older mentors although a slot of a mentor who
\* is not older than some mentee, and overlaps more with it, stays unused
C5_Witness ==
    /\ pc = "solved"
    /\ Cardinality(edges) >= 2
    /\ \A e \in edges : e._statistics.year_difference >= 1
    /\ \E e \in edges, v \in Slots :
          /\ ~SlotUsed(v)
          /\ v.copy_number = 0
          /\ ~MentorOlder(e.mentee, v)
          /\ RatLess(e._statistics.interests_overlap_fraction,
                     InterestsOverlapFraction(MentorshipEdge(e.mentee, v)))

\* C6 as claimed: no mentor has 3 mentees while another with capacity >= 2 has
\* only 1, and a slot with copy_number i >= 1 is used only when every other
\* mentor's slot with a lower copy_number is used.
C6_LoadSpreading ==
    Returned =>
        /\ \A i, j \in DOMAIN mentors :
               (num_mentees_possible(mentors[i]) >= 2 /\ num_mentees_possible(mentors[j]) >= 2)
                   => ~(Cardinality(EdgesOfMentor(mentors[i])) = 3
                        /\ Cardinality(EdgesOfMentor(mentors[j])) = 1)
        /\ \A e \in edges :
               e.mentor.copy_number >= 1
                   => \A v \in Slots :
                          (OwnerOf(v) # OwnerOf(e.mentor) /\ v.copy_number < e.mentor.copy_number)
                              => SlotUsed(v)

-----------------------------------------------------------------------------
(* Properties of capacity expansion (SpecExpand) *)

\* C7: a mentor with capacity k >= 1 is expanded into exactly k slots with
\* copy_number 0, 1, ..., k-1 in turn, every slot has the attributes of the
\* mentor, and the mentor itself, first of the list, keeps copy_number 0.
C7_CapacityExpansion ==
    (xpc = "expanded" /\ capacity >= 1)
        => /\ Len(duplicates) = capacity
           /\ \A j \in DOMAIN duplicates :
                  /\ duplicates[j].copy_number = j - 1
                  /\ [duplicates[j] EXCEPT !.copy_number = 0] = subject
           /\ duplicates[1] = subject
           /\ subject.copy_number = 0

\* a mentor of either variant expanded into three slots
C7_Witness ==
    /\ xpc = "expanded"
    /\ capacity = 3
    /\ Len(duplicates) = 3
    /\ duplicates[3].copy_number = 2

\* C8 as claimed: a mentor with capacity 0 is expanded into zero slots.
C8_ZeroCapacityNoSlot ==
    (xpc = "expanded" /\ capacity = 0) => Len(duplicates) = 0

\* C9 as claimed: num_mentees_possible is available_time when that is <= 2 and
\* 3 otherwise, and lies in 0..3 for every integer available_time.
C9_CapacityDerivation ==
    (xpc = "expanded" /\ variant = "2020-spring")
        => /\ capacity = (IF subject.available_time <= 2 THEN subject.available_time ELSE 3)
           /\ capacity \in 0 .. 3

-----------------------------------------------------------------------------
(* Properties of edge scoring (SpecScore) *)

\* 0 <= x <= 1
InUnitInterval(x) == RatLeq(RatInt(0), x) /\ RatLeq(x, RatInt(1))

\* C10: for a mentee with non-empty interested_fields and desired_topics the
\* recorded interests_overlap_fraction is |interested & experienced| /
\* |interested|, topics_overlap_fraction is |desired & knowledgeable| /
\* |desired|, both lie in [0, 1], and {ML, Security} against {ML} gives 1/2.
C10_OverlapScoring ==
    (spc = "computed"
     /\ edge.mentee.interested_fields # {} /\ edge.mentee.desired_topics # {})
        => LET st == edge._statistics
               fi == edge.mentee.interested_fields
               fe == edge.mentor.experienced_fields
               td == edge.mentee.desired_topics
               tk == edge.mentor.knowledgeable_topics
           IN  /\ st.interests_overlap_fraction.n * Cardinality(fi)
                      = Cardinality(fi \cap fe) * st.interests_overlap_fraction.d
               /\ st.topics_overlap_fraction.n * Cardinality(td)
                      = Cardinality(td \cap tk) * st.topics_overlap_fraction.d
               /\ InUnitInterval(st.interests_overlap_fraction)
               /\ InUnitInterval(st.topics_overlap_fraction)
               /\ (fi = {"ML", "Security"} /\ fe = {"ML"})
                      => st.interests_overlap_fraction = [n |-> 1, d |-> 2]

\* the edge of a mentee interested in {ML, Security} and a mentor experienced
\* in {ML} has been scored
C10_Witness ==
    /\ spc = "computed"
    /\ edge.mentee.interested_fields = {"ML", "Security"}
    /\ edge.mentor.experienced_fields = {"ML"}
    /\ edge._statistics.interests_overlap_fraction = [n |-> 1, d |-> 2]
    /\ edge._statistics.topics_overlap_fraction = [n |-> 1, d |-> 2]

\* C11 as claimed: when the mentee's interested_fields or desired_topics is the
\* empty set, a read of the edge's weight completes without raising and the
\* overlap fraction of the empty set is recorded as 0.
C11_ZeroDenominatorGuard ==
    (spc \in {"computed", "raised"}
     /\ (edge.mentee.interested_fields = {} \/ edge.mentee.desired_topics = {}))
        => /\ spc = "computed"
           /\ edge.mentee.interested_fields = {}
                  => edge._statistics.interests_overlap_fraction = RatInt(0)
           /\ edge.mentee.desired_topics = {}
                  => edge._statistics.topics_overlap_fraction = RatInt(0)

-----------------------------------------------------------------------------
(* Properties of the whole program on a response file (SpecSurvey) *)

\* create_mentors_and_mentees_from_survey_responses raised
ParseRaised == pc = "failed" /\ graph = None /\ raised \in {"IndexError", "ValueError"}

\* create_mentors_and_mentees_from_survey_responses returned its two lists
ParseReturned == pc # "start" /\ ~ParseRaised

\* the column indices of the variant that is running
Cols == IF variant = "2020-spring" THEN Columns2020 ELSE Columns2021

HasRole(row, role) == ~IndexRaises(row, {Cols.ROLE}) /\ At(row, Cols.ROLE) = role
IsMenteeRow(row) == HasRole(row, MENTEE_ROLE)
IsMentorRow(row) == HasRole(row, MENTOR_ROLE)

\* the rows that answer as mentee (as mentor), in file order: the k-th
\* parsed mentee comes from the k-th of them
MenteeRows == SelectSeq(rows, IsMenteeRow)
MentorRows == SelectSeq(rows, IsMentorRow)

EmptyStr == <<>>

\* C12 as claimed: when a delimiter-separated tag cell of a row is the empty
\* string, the attribute parsed from it is the empty set, and parsing does
\* not fail on it.
C12_EmptyTagField ==
    ParseReturned
        => /\ \A k \in DOMAIN mentees :
                /\ At(MenteeRows[k], Cols.MENTEE_INTERESTED_FIELDS) = EmptyStr
                       => mentees[k].interested_fields = {}
                /\ At(MenteeRows[k], Cols.MENTEE_DESIRED_TOPICS) = EmptyStr
                       => mentees[k].desired_topics = {}
           /\ \A k \in DOMAIN mentors :
                  At(MentorRows[k], Cols.MENTOR_EXPERIENCED_FIELDS) = EmptyStr
                      => mentors[k].experienced_fields = {}

\* C13 as claimed: in both variants a numeric answer that is not an integer
\* is replaced by a default and the row still becomes a participant (a file
\* without empty lines is read to the end, one participant per answering row).
C13_NumericFallback ==
    (pc # "start" /\ \A i \in DOMAIN rows : rows[i] # <<>>)
        => /\ ParseReturned
           /\ Len(mentees) = Len(MenteeRows)
           /\ Len(mentors) = Len(MentorRows)

\* a row that answers as mentee or mentor with a year that is not a key of
\* YEAR_VALUES
HasUnknownYear(row) ==
    /\ IsMenteeRow(row) \/ IsMentorRow(row)
    /\ At(row, Cols.YEAR) \notin DOMAIN YEAR_VALUES

\* C14 as claimed: a row whose year label is not a key of YEAR_VALUES fails
\* when the participant is constructed, so that reading the file raises and
\* no participant with an unknown year reaches graph construction or scoring.
C14_VocabularyCheck ==
    (pc # "start" /\ \E i \in DOMAIN rows : HasUnknownYear(rows[i]))
        => /\ pc = "failed"
           /\ graph = None
           /\ mentees = <<>> /\ mentors = <<>>
           /\ raised \notin {NoError, KeyError}

\* the participant p carries the cells of row at the claimed positions
FieldsAtPositions(p, row) ==
    /\ p.email = At(row, Cols.EMAIL)
    /\ p.year = At(row, Cols.YEAR)
    /\ variant = "2021-spring"
           => /\ p.name = At(row, Columns2021.NAME)
              /\ p.time_zone = int(At(row, Columns2021.GMT_TIMEZONE)).value

\* C15 as claimed: in both variants the participant's email is row[EMAIL]
\* and its year is row[YEAR]; in 2021-spring its name is row[NAME] and its
\* time_zone the integer at row[GMT_TIMEZONE].
C15_FieldPositions ==
    ParseReturned
        => /\ \A k \in DOMAIN mentees : FieldsAtPositions(mentees[k], MenteeRows[k])
           /\ \A k \in DOMAIN mentors : FieldsAtPositions(mentors[k], MentorRows[k])

\* find_optimal_matches raised
SolverRaised == pc = "failed" /\ graph # None /\ raised \in {"NetworkXError", "ValueError"}

\* C16: the output file is written only when reading the response file,
\* graph construction and solving have all returned; when one of them raises
\* the run ends without an output file.
C16_NoPartialOutput ==
    /\ outfile = "written"
           => /\ ParseReturned
              /\ graph # None
              /\ ~SolverRaised
              /\ pc \in {"saved", "done", "failed"}
    /\ (ParseRaised \/ (pc = "failed" /\ graph = None) \/ SolverRaised)
           => outfile = "absent"

\* a run whose three steps returned has written its matches
C16_Witness ==
    /\ pc = "saved"
    /\ outfile = "written"
    /\ raised = NoError
    /\ Cardinality(edges) = 2

-----------------------------------------------------------------------------
(* Reporting (Spec) *)

\* print_overall_matching_statistics has been called (it returned or raised)
Reported == pc = "done" \/ (pc = "failed" /\ outfile = "written")

\* C17 as claimed: with DEBUG on, print_overall_matching_statistics completes
\* without raising when it is given fewer than two edges.
C17_ReportingFewSamples ==
    (Reported /\ Cardinality(edges) < 2) => (pc = "done" /\ raised = NoError)

-----------------------------------------------------------------------------
(* Two runs on the same input (SpecRerun) *)

\* C18 as claimed: two runs on the same participants in the same order return
\* the same (mentee, mentor) pairs, also when several assignments have the
\* same maximal total weight.
C18_Determinism ==
    (pc = "solved" /\ rerun_pc = "solved") => rerun_edges = edges

-----------------------------------------------------------------------------
(* The 2021-spring scorer (SpecScore2021) *)

\* both sides answered "Yes" to the gender (race) preference question
BothPreferGender ==
    /\ At(rows[1], Columns2021.MENTEE_PREFER_GENDER) = "Yes"
    /\ At(rows[2], Columns2021.MENTOR_PREFER_GENDER) = "Yes"
BothPreferRace ==
    /\ At(rows[1], Columns2021.MENTEE_PREFER_RACE) = "Yes"
    /\ At(rows[2], Columns2021.MENTOR_PREFER_RACE) = "Yes"

SameGender ==
    At(rows[1], Columns2021.MENTEE_GENDER) = At(rows[2], Columns2021.MENTOR_GENDER)
SameRace ==
    At(rows[1], Columns2021.MENTEE_RACE) = At(rows[2], Columns2021.MENTOR_RACE)

\* C19 as claimed: for every mentee and mentor slot read from the survey the
\* scorer produces a weight and a breakdown; the breakdown records whether
\* both sides declared the gender (race) preference and whether the
\* preference was declared and the values are equal, which is exactly when
\* the bonus of 20 is part of the weight.
C19_MutualPreferenceBonus ==
    (spc \in {"computed", "raised"} /\ edge.mentee.interested_fields # {})
        => /\ spc = "computed"
           /\ edge._weight # None
           /\ edge._statistics.does_prefer_gender = BothPreferGender
           /\ edge._statistics.gender_preferred_and_same = (BothPreferGender /\ SameGender)
           /\ edge._statistics.does_prefer_race = BothPreferRace
           /\ edge._statistics.race_preferred_and_same = (BothPreferRace /\ SameRace)

-----------------------------------------------------------------------------
(* Weight formula and breakdown of the 2020-spring scorer (SpecScore) *)

\* the weight the formula gives for the edge e
FormulaWeight(e) ==
    LET interests == Rat(Cardinality(e.mentee.interested_fields \cap e.mentor.experienced_fields),
                         Cardinality(e.mentee.interested_fields))
        topics == Rat(Cardinality(e.mentee.desired_topics \cap e.mentor.knowledgeable_topics),
                      Cardinality(e.mentee.desired_topics))
        year_difference == YEAR_VALUES[e.mentor.year] - YEAR_VALUES[e.mentee.year]
        bonus == IF year_difference \in {1, 2} THEN 1 ELSE 0
        penalty == IF year_difference <= 0 THEN 10000000 ELSE 0
    IN  RatAdd(RatAdd(RatScale(5, interests), RatScale(3, topics)),
               RatInt(bonus - penalty - 100 * e.mentor.copy_number))

\* the entries the scorer records for its three matching criteria
MatchingCriteria == {"interests_overlap_fraction", "topics_overlap_fraction", "year_difference"}

-----------------------------------------------------------------------------
(* Seniority penalty against all other terms (SpecScore) *)

\* the weights compute_weight_and_statistics gives the edges of EdgeInputs
\* whose mentor is at least one year above the mentee
OlderMentorWeights ==
    {compute_weight_and_statistics(e).weight :
        e \in {x \in EdgeInputs : /\ compute_weight_and_statistics(x).raised = NoError
                                  /\ YearDifference(x) >= 1}}

\* C21: an edge scored with year_difference <= 0 has a strictly lower weight
\* than every edge with year_difference >= 1, for all mentees, all slots with
\* copy_number 0 .. 2 and all overlap values.
C21_PenaltyDominance ==
    (spc = "computed" /\ edge._statistics.year_difference <= 0)
        => \A w \in OlderMentorWeights : RatLess(edge._weight, w)

\* the best edge with a mentor who is not older (same year, full overlap,
\* first slot: 5 + 3 - 10000000) has been scored, and the worst edge with an
\* older mentor (no overlap, no bonus, third slot: -200) is among the others
C21_Witness ==
    /\ spc = "computed"
    /\ edge._statistics.year_difference = 0
    /\ edge.mentor.copy_number = 0
    /\ edge._weight = RatInt(8 - MENTOR_NOT_OLDER_PENALTY)
    /\ RatInt(0 - 200) \in OlderMentorWeights
    /\ \A w \in OlderMentorWeights : RatLeq(RatInt(0 - 200), w)

-----------------------------------------------------------------------------
(* Memoization of the 2020-spring scorer (SpecMemo) *)

\* C22: over every sequence of reads of an edge's weight and statistics,
\* compute_weight_and_statistics is called at most once; _weight and
\* _statistics are set together; every read returns a value of that one
\* computation; and the _statistics of every edge find_optimal_matches
\* returned, which saving and reporting read directly, is not None.
C22_ComputeOnce ==
    /\ calls <= 1
    /\ spc # "idle" => ((edge._weight = None) <=> (edge._statistics = None))
    /\ spc = "computed"
          => /\ calls = 1
             /\ edge._weight = compute_weight_and_statistics(edge).weight
             /\ edge._statistics = compute_weight_and_statistics(edge).statistics
             /\ read_value \in {edge._weight, edge._statistics}
             /\ read_value # None
    /\ Returned => \A e \in edges : e._statistics # None /\ e._weight # None

\* an edge has been read four times, the statistics last, on one computation
C22_Witness ==
    /\ spc = "computed"
    /\ reads >= 4
    /\ calls = 1
    /\ read_value = edge._statistics
    /\ read_value # None

-----------------------------------------------------------------------------
(* Order of the slots of one mentor in the returned assignment (Spec) *)

\* the slot with copy_number i of the mentor the slot belongs to
SlotOf(slot, i) == [slot EXCEPT !.copy_number = i]

\* C23: in the returned assignment the used slots of each mentor are a
\* prefix of its slots: when the slot with copy_number i >= 1 is matched,
\* so are the slots 0 .. i-1 of the same mentor; and for any fixed mentee a
\* slot of lower copy_number of the same mentor has strictly higher weight.
C23_SlotPrefix ==
    Returned =>
        /\ \A e \in edges :
               \A i \in 0 .. (e.mentor.copy_number - 1) : SlotUsed(SlotOf(e.mentor, i))
        /\ \A m \in MenteeSet : \A u, v \in Slots :
               (OwnerOf(u) = OwnerOf(v) /\ u.copy_number < v.copy_number)
                   => RatLess(graph.edges[<<m, v>>].mentorship_edge._weight,
                              graph.edges[<<m, u>>].mentorship_edge._weight)

\* the first two of the three slots of a mentor are matched and the third is
\* left, while the only slot of another mentor is left as well
C23_Witness ==
    /\ pc = "solved"
    /\ \E e \in edges :
          /\ e.mentor.copy_number = 1
          /\ SlotUsed(SlotOf(e.mentor, 0))
          /\ SlotOf(e.mentor, 2) \in Slots
          /\ ~SlotUsed(SlotOf(e.mentor, 2))
          /\ \E v \in Slots : OwnerOf(v) # OwnerOf(e.mentor) /\ ~SlotUsed(v)

-----------------------------------------------------------------------------
(* Termination of the 2021-spring scorer (SpecScore2021) *)

\* C24 as claimed: while the weight of an edge whose mentee has a non-empty
\* interested_fields is read, the statement self.weight += ... of the nested
\* helpers is never reached with _weight still None, the weight property is
\* never active more than once, and the read raises nothing.
C24_ScorerTermination ==
    Cardinality(edge.mentee.interested_fields) > 0
        => /\ spc = "adding" => edge._weight # None
           /\ depth <= 1
           /\ spc # "raised"
           /\ raised = NoError

====
